---------------------------- MODULE Spec2Model ----------------------------
(***************************************************************************)
(* Provider adapters of langchainjs: the AI21 completion LLM               *)
(* (langchain/src/llms/ai21.ts) and the OpenAI moderation chain            *)
(* (langchain/src/chains/openai_moderation.ts).                            *)
(*                                                                         *)
(* JavaScript values that may be `undefined` are modelled as sequences of  *)
(* length at most one: <<>> is undefined, <<v>> is the value v.            *)
(***************************************************************************)
EXTENDS Integers, Sequences, FiniteSets, TLC

(* ------------------------------ bounds -------------------------------- *)
\* Number of _call invocations explored per adapter instance.
MaxCalls == 2

(* ------------------------- JavaScript helpers ------------------------- *)
Undefined == <<>>
Some(v) == <<v>>

\* a ?? b
Coalesce(a, b) == IF a = Undefined THEN b ELSE a

\* truthiness of an optional string: undefined and "" are falsy
TruthyStr(o) == o # Undefined /\ o[1] # ""

\* { ...a, ...b } on objects modelled as functions from key to value;
\* spreading undefined (the empty function <<>>) contributes no key
Spread(a, b) == [k \in (DOMAIN a) \cup (DOMAIN b) |-> IF k \in DOMAIN b THEN b[k] ELSE a[k]]

\* getEnvironmentVariable(name): the value of the process environment
\* variable, undefined when it is not set
GetEnvironmentVariable(environment, name) == environment[name]

(* ----------------------------- AI21: data ----------------------------- *)
getDefaultAI21PenaltyData ==
    [scale |-> 0,
     applyToWhitespaces |-> TRUE,
     applyToPunctuations |-> TRUE,
     applyToNumbers |-> TRUE,
     applyToStopwords |-> TRUE,
     applyToEmojis |-> TRUE]

\* temperature 0.7, in tenths
DefaultTemperature == 7
DefaultMaxTokens == 1024
DefaultMinTokens == 0
DefaultTopP == 1
DefaultNumResults == 1
DefaultModel == "j2-jumbo-instruct"
ExperimentalModel == "j1-grande-instruct"
ExperimentalBase == "https://api.ai21.com/studio/v1/experimental"
StandardBase == "https://api.ai21.com/studio/v1"

\* the instance after the class field initializers, before the constructor body
AI21FieldInit ==
    [model |-> DefaultModel,
     temperature |-> DefaultTemperature,
     maxTokens |-> DefaultMaxTokens,
     minTokens |-> DefaultMinTokens,
     topP |-> DefaultTopP,
     presencePenalty |-> getDefaultAI21PenaltyData,
     countPenalty |-> getDefaultAI21PenaltyData,
     frequencyPenalty |-> getDefaultAI21PenaltyData,
     numResults |-> DefaultNumResults,
     logitBias |-> Undefined,
     ai21ApiKey |-> Undefined,
     stop |-> Undefined,
     baseUrl |-> Undefined]

\* error messages thrown by the adapter
MsgNoKey == "No AI21 API key found. Please set it as AI21_API_KEY in your environment variables."
MsgStopConflict == "stop found in both the input and default params."
MsgStatus == "AI21 call failed with status code"
MsgNoCompletions == "No completions found in response"
MsgAbort == "AbortError"

\* new Error(message), optionally with the status code interpolated in the
\* message and a `response` property attached
MkError(message, status, response) ==
    [message |-> message, status |-> status, response |-> response]

(* -------------------------- AI21: input sets -------------------------- *)
AI21KeyInputs == {Undefined, Some(""), Some("k1")}
AI21ModelInputs == {Undefined, Some(ExperimentalModel)}
AI21StopInputs == {Undefined, Some(<<>>), Some(<<"s1">>)}
AI21BaseUrlInputs == {Undefined, Some(""), Some("https://proxy")}
AI21TemperatureInputs == {Undefined, Some(0)}

\* AI21Input: the constructor's `fields`
AI21Inputs ==
    [ai21ApiKey : AI21KeyInputs,
     model : AI21ModelInputs,
     temperature : AI21TemperatureInputs,
     minTokens : {Undefined},
     maxTokens : {Undefined},
     topP : {Undefined},
     presencePenalty : {Undefined},
     countPenalty : {Undefined},
     frequencyPenalty : {Undefined},
     numResults : {Undefined},
     logitBias : {Undefined},
     stop : AI21StopInputs,
     baseUrl : AI21BaseUrlInputs]

\* snapshots of the process environment
EnvSet ==
    [AI21_API_KEY : {Undefined, Some("e1")},
     OPENAI_API_KEY : {Undefined, Some("e2")}]

Prompts == {"p1"}
CallStops == {Undefined, Some(<<>>), Some(<<"s2">>)}
\* options.signal: absent, or the caller's AbortSignal
CallSignals == {Undefined, Some("signal")}
CallOptions == [stop : CallStops, signal : CallSignals]

\* response envelopes of the completion endpoint
Completions ==
    {Undefined,
     Some(<<>>),
     Some(<<[data |-> Undefined]>>),
     Some(<<[data |-> Some([text |-> Undefined])]>>),
     Some(<<[data |-> Some([text |-> Some("t1")])]>>)}
ResponseOk(status) == status >= 200 /\ status <= 299
MkResponse(status, completions) ==
    [status |-> status, ok |-> ResponseOk(status), body |-> [completions |-> completions]]
Responses ==
    {MkResponse(200, c) : c \in Completions}
        \cup {MkResponse(500, Undefined), MkResponse(404, Undefined)}

(* --------------------------- AI21: operators -------------------------- *)
\* variant: the environment variable wins over the explicit field
ResolveAI21KeyEnvFirst(fields, environment) ==
    Coalesce(GetEnvironmentVariable(environment, "AI21_API_KEY"), fields.ai21ApiKey)

\* this.ai21ApiKey = fields?.ai21ApiKey ?? getEnvironmentVariable("AI21_API_KEY")
ResolveAI21Key(fields, environment) ==
    Coalesce(fields.ai21ApiKey, GetEnvironmentVariable(environment, "AI21_API_KEY"))

\* the constructor body, applied to the field-initialized instance
AI21Constructor(fields, environment) ==
    [model |-> Coalesce(fields.model, Some(AI21FieldInit.model))[1],
     temperature |-> Coalesce(fields.temperature, Some(AI21FieldInit.temperature))[1],
     maxTokens |-> Coalesce(fields.maxTokens, Some(AI21FieldInit.maxTokens))[1],
     minTokens |-> Coalesce(fields.minTokens, Some(AI21FieldInit.minTokens))[1],
     topP |-> Coalesce(fields.topP, Some(AI21FieldInit.topP))[1],
     presencePenalty |-> Coalesce(fields.presencePenalty, Some(AI21FieldInit.presencePenalty))[1],
     countPenalty |-> Coalesce(fields.countPenalty, Some(AI21FieldInit.countPenalty))[1],
     frequencyPenalty |-> Coalesce(fields.frequencyPenalty, Some(AI21FieldInit.frequencyPenalty))[1],
     numResults |-> Coalesce(fields.numResults, Some(AI21FieldInit.numResults))[1],
     logitBias |-> fields.logitBias,
     ai21ApiKey |-> ResolveAI21Key(fields, environment),
     stop |-> fields.stop,
     baseUrl |-> fields.baseUrl]

\* validateEnvironment() throws
ValidateEnvironmentThrows(this) == ~TruthyStr(this.ai21ApiKey)

\* this.stop && stop && this.stop.length > 0 && stop.length > 0
StopConflict(this, stop) ==
    /\ this.stop # Undefined
    /\ stop # Undefined
    /\ Len(this.stop[1]) > 0
    /\ Len(stop[1]) > 0

\* variant: the merged list is assigned to this.stop instead of the local
StopFrameAssignsThis(this, stop) ==
    [this |-> [this EXCEPT !.stop = Some(Coalesce(this.stop, Coalesce(stop, Some(<<>>)))[1])],
     stop |-> Coalesce(this.stop, Coalesce(stop, Some(<<>>)))[1]]

\* stop = this.stop ?? stop ?? []  -- the instance and the local `stop`
\* after the assignment
StopFrame(this, stop) ==
    [this |-> this,
     stop |-> Coalesce(this.stop, Coalesce(stop, Some(<<>>)))[1]]

\* this.baseUrl ?? this.model === "j1-grande-instruct" ? experimental : v1
\* `===` binds tighter than `??`, which binds tighter than `?:`, so the
\* condition of the conditional is (this.baseUrl ?? (this.model === ...))
BaseUrlOf(this) ==
    LET cond == IF this.baseUrl # Undefined
                THEN this.baseUrl[1] # ""
                ELSE this.model = ExperimentalModel
    IN IF cond THEN ExperimentalBase ELSE StandardBase

\* `${baseUrl}/${this.model}/complete`
UrlOf(this) == <<BaseUrlOf(this), this.model, "complete">>

HeadersOf(this) ==
    [Authorization |-> <<"Bearer", this.ai21ApiKey[1]>>,
     ContentType |-> "application/json"]

defaultParams(this) ==
    [temperature |-> this.temperature,
     maxTokens |-> this.maxTokens,
     minTokens |-> this.minTokens,
     topP |-> this.topP,
     presencePenalty |-> this.presencePenalty,
     countPenalty |-> this.countPenalty,
     frequencyPenalty |-> this.frequencyPenalty,
     numResults |-> this.numResults,
     logitBias |-> this.logitBias]

\* { prompt, stopSequences: stop, ...this.defaultParams }
DataOf(this, prompt, stop) ==
    Spread([prompt |-> prompt, stopSequences |-> stop], defaultParams(this))

\* JSON.stringify(data): a property whose value is undefined is omitted
\* (of the members of data only logitBias can be undefined)
JSONStringify(data) ==
    IF data.logitBias = Undefined
    THEN [k \in (DOMAIN data) \ {"logitBias"} |-> data[k]]
    ELSE data

\* variant: fetch is not handed the caller's signal
FetchSignalOmitted(options) == Undefined

\* signal: options.signal
FetchSignal(options) == options.signal

\* the arguments of fetch(url, {method, headers, body, signal})
FetchRequest(this, prompt, stop, options) ==
    [url |-> UrlOf(this),
     method |-> "POST",
     headers |-> HeadersOf(this),
     body |-> JSONStringify(DataOf(this, prompt, stop)),
     signal |-> FetchSignal(options)]

Threw(error) == [threw |-> TRUE, value |-> Undefined, error |-> Some(error)]
Returned(value) == [threw |-> FALSE, value |-> Some(value), error |-> Undefined]

\* variant: the error is thrown without the response attached
FetchCallbackDropsResponse(response) ==
    IF ~response.ok
    THEN Threw(MkError(MsgStatus, Some(response.status), Undefined))
    ELSE Returned(response.body)

\* the callback's handling of a resolved fetch, up to `return response.json()`
FetchCallback(response) ==
    IF ~response.ok
    THEN Threw(MkError(MsgStatus, Some(response.status), Some(response)))
    ELSE Returned(response.body)

\* this.caller.callWithOptions({}, callback): the caller hands the callback's
\* value or error to the adapter unmodified
CallWithOptions(outcome) == outcome

\* variant: an empty completions array yields the empty string
ShapeResponseEmptyString(responseData) ==
    IF \/ responseData.completions = Undefined
       \/ (Len(responseData.completions[1]) > 0
           /\ responseData.completions[1][1].data = Undefined)
    THEN Threw(MkError(MsgNoCompletions, Undefined, Undefined))
    ELSE IF Len(responseData.completions[1]) = 0
    THEN Returned("")
    ELSE Returned(Coalesce(responseData.completions[1][1].data[1].text, Some(""))[1])

\* the checks on responseData and the returned text
ShapeResponse(responseData) ==
    IF \/ responseData.completions = Undefined
       \/ Len(responseData.completions[1]) = 0
       \/ responseData.completions[1][1].data = Undefined
    THEN Threw(MkError(MsgNoCompletions, Undefined, Undefined))
    ELSE Returned(Coalesce(responseData.completions[1][1].data[1].text, Some(""))[1])

(* ------------------------ moderation: operators ----------------------- *)
MsgNoOpenAIKey == "OpenAI API key not found"
MsgPolicy == "Text was found that violates OpenAI's content policy."
MsgTypeError == "TypeError: Cannot read properties of undefined (reading 'flagged')"

\* OpenAIModerationChainInput: the constructor's `fields`
ModInputs ==
    [openAIApiKey : {Undefined, Some(""), Some("k2")},
     openAIOrganization : {Undefined},
     throwError : {Undefined, Some(TRUE)},
     configuration : {Undefined, [apiKey |-> Some("c1")]}]

Texts == {"hello", MsgPolicy}

\* results of client.moderations.create
Moderations ==
    {[results |-> <<>>],
     [results |-> <<[flagged |-> TRUE]>>],
     [results |-> <<[flagged |-> FALSE]>>],
     [results |-> <<[flagged |-> FALSE], [flagged |-> TRUE]>>]}

\* what a rejected moderation request is rejected with
Rejections == {[isError |-> TRUE, text |-> "connect ECONNREFUSED"],
               [isError |-> FALSE, text |-> "rate limited"]}

\* this.openAIApiKey = fields?.openAIApiKey ?? getEnvironmentVariable("OPENAI_API_KEY")
ResolveOpenAIKey(fields, environment) ==
    Coalesce(fields.openAIApiKey, GetEnvironmentVariable(environment, "OPENAI_API_KEY"))

\* if (!this.openAIApiKey) throw
ModConstructorThrows(fields, environment) ==
    ~TruthyStr(ResolveOpenAIKey(fields, environment))

\* { ...configuration, apiKey, organization, ...configuration }
ClientConfig(fields, environment) ==
    Spread(Spread(fields.configuration,
                  [apiKey |-> ResolveOpenAIKey(fields, environment),
                   organization |-> fields.openAIOrganization]),
           fields.configuration)

\* the instance the constructor builds
ModConstructor(fields, environment) ==
    [inputKey |-> "input",
     outputKey |-> "output",
     throwError |-> Coalesce(fields.throwError, Some(FALSE))[1],
     openAIApiKey |-> ResolveOpenAIKey(fields, environment),
     openAIOrganization |-> fields.openAIOrganization,
     clientConfig |-> ClientConfig(fields, environment)]

\* the instance before construction has completed
ModFieldInit ==
    [inputKey |-> "input",
     outputKey |-> "output",
     throwError |-> FALSE,
     openAIApiKey |-> Undefined,
     openAIOrganization |-> Undefined,
     clientConfig |-> Undefined]

\* variant: flagged text is handed back when throwError is off
ModerateReturnsText(this, text, results) ==
    IF results.flagged /\ this.throwError
    THEN Threw(MkError(MsgPolicy, Undefined, Undefined))
    ELSE Returned(text)

\* _moderate(text, results)
Moderate(this, text, results) ==
    IF results.flagged
    THEN IF this.throwError
         THEN Threw(MkError(MsgPolicy, Undefined, Undefined))
         ELSE Returned(MsgPolicy)
    ELSE Returned(text)

\* this.caller.call(callback): the caller hands the callback's value or
\* rejection to the chain unmodified
CallerCall(outcome) == outcome

\* catch (error): an Error is rethrown, anything else is wrapped in one
CatchRethrow(rejection) == MkError(rejection.text, Undefined, Undefined)

\* _moderate(text, mod.results[0]) and the returned chain values
ModerateFirst(this, text, mod) ==
    IF Len(mod.results) = 0
    THEN Threw(MkError(MsgTypeError, Undefined, Undefined))
    ELSE LET out == Moderate(this, text, mod.results[1])
         IN IF out.threw THEN out
            ELSE Returned([k \in {this.outputKey} |-> out.value[1]])

(* -------------------------------- state ------------------------------- *)
VARIABLES
    env,            \* the process environment
    ai21Status,     \* "unconstructed" | "constructed"
    ai21Fields,     \* the fields the AI21 constructor was given, if any
    ai21,           \* the AI21 instance
    ai21pc,         \* position of the current _call
    ai21Prompt,     \* its prompt
    ai21Options,    \* its options
    ai21Aborted,    \* whether the caller's AbortSignal has been aborted
    ai21Request,    \* the request handed to fetch, if any
    ai21Received,   \* the response fetch resolved with, if any
    ai21Data,       \* responseData, once response.json() has resolved
    ai21Result,     \* the string _call returned, if any
    ai21Error,      \* the error _call threw, if any
    ai21Fetches,    \* number of fetch invocations made by the instance
    ai21Calls,      \* number of _call invocations made
    modStatus,      \* "unconstructed" | "constructed" | "constructFailed"
    modFields,      \* the fields the chain constructor was given, if any
    mod,            \* the OpenAIModerationChain instance
    modpc,          \* position of the current _call
    modText,        \* its input text
    modReply,       \* the moderation the client resolved with, if any
    modOutput,      \* the chain values _call returned, if any
    modError,       \* the error the constructor or _call threw, if any
    modRequests,    \* number of moderation requests made by the instance
    modCalls        \* number of _call invocations made

ai21Vars ==
    <<ai21Status, ai21Fields, ai21, ai21pc, ai21Prompt, ai21Options, ai21Aborted,
      ai21Request, ai21Received, ai21Data, ai21Result, ai21Error, ai21Fetches,
      ai21Calls>>
modVars ==
    <<modStatus, modFields, mod, modpc, modText, modReply, modOutput, modError,
      modRequests, modCalls>>
vars == <<env, ai21Vars, modVars>>

Init ==
    /\ env \in EnvSet
    /\ ai21Status = "unconstructed"
    /\ ai21Fields = Undefined
    /\ ai21 = AI21FieldInit
    /\ ai21pc = "idle"
    /\ ai21Prompt = Undefined
    /\ ai21Options = Undefined
    /\ ai21Aborted = FALSE
    /\ ai21Request = Undefined
    /\ ai21Received = Undefined
    /\ ai21Data = Undefined
    /\ ai21Result = Undefined
    /\ ai21Error = Undefined
    /\ ai21Fetches = 0
    /\ ai21Calls = 0
    /\ modStatus = "unconstructed"
    /\ modFields = Undefined
    /\ mod = ModFieldInit
    /\ modpc = "idle"
    /\ modText = Undefined
    /\ modReply = Undefined
    /\ modOutput = Undefined
    /\ modError = Undefined
    /\ modRequests = 0
    /\ modCalls = 0

(* ---------------------------- AI21: actions --------------------------- *)
\* new AI21(fields)
AI21Construct(fields) ==
    /\ ai21Status = "unconstructed"
    /\ ai21Status' = "constructed"
    /\ ai21Fields' = Some(fields)
    /\ ai21' = AI21Constructor(fields, env)
    /\ UNCHANGED <<env, ai21pc, ai21Prompt, ai21Options, ai21Aborted, ai21Request,
                   ai21Received, ai21Data, ai21Result, ai21Error, ai21Fetches, ai21Calls,
                   modVars>>

\* _call(prompt, options) up to its first suspension: validation, the stop
\* conflict check, the request and the fetch issued through the caller
AI21Call(prompt, options, aborted) ==
    /\ ai21Status = "constructed"
    /\ ai21pc \in {"idle", "done", "failed"}
    /\ ai21Calls < MaxCalls
    /\ ai21Calls' = ai21Calls + 1
    /\ ai21Prompt' = Some(prompt)
    /\ ai21Options' = Some(options)
    /\ ai21Aborted' = (options.signal # Undefined /\ aborted)
    /\ ai21Received' = Undefined
    /\ ai21Data' = Undefined
    /\ ai21Result' = Undefined
    /\ IF ValidateEnvironmentThrows(ai21)
       THEN /\ ai21pc' = "failed"
            /\ ai21Error' = Some(MkError(MsgNoKey, Undefined, Undefined))
            /\ ai21Request' = Undefined
            /\ UNCHANGED <<ai21, ai21Fetches>>
       ELSE IF StopConflict(ai21, options.stop)
       THEN /\ ai21pc' = "failed"
            /\ ai21Error' = Some(MkError(MsgStopConflict, Undefined, Undefined))
            /\ ai21Request' = Undefined
            /\ UNCHANGED <<ai21, ai21Fetches>>
       ELSE LET frame == StopFrame(ai21, options.stop)
            IN /\ ai21' = frame.this
               /\ ai21Request' = Some(FetchRequest(frame.this, prompt, frame.stop, options))
               /\ ai21Fetches' = ai21Fetches + 1
               /\ ai21pc' = "inflight"
               /\ ai21Error' = Undefined
    /\ UNCHANGED <<env, ai21Status, ai21Fields, modVars>>

\* the fetch observes the caller's signal only if it was handed the signal
SignalSeen == ai21Request # Undefined /\ ai21Request[1].signal # Undefined /\ ai21Aborted

\* the caller aborts the AbortSignal it passed in options
AI21Abort ==
    /\ ai21pc \in {"inflight", "readingBody"}
    /\ ai21Options[1].signal # Undefined
    /\ ~ai21Aborted
    /\ ai21Aborted' = TRUE
    /\ UNCHANGED <<env, ai21Status, ai21Fields, ai21, ai21pc, ai21Prompt, ai21Options,
                   ai21Request, ai21Received, ai21Data, ai21Result, ai21Error, ai21Fetches,
                   ai21Calls, modVars>>

\* the outcome of the callback reaches _call through the caller and fails it
AI21Fail(error) ==
    LET outcome == CallWithOptions(Threw(error))
    IN /\ ai21pc' = "failed"
       /\ ai21Error' = outcome.error
       /\ ai21Result' = Undefined

\* fetch rejects because its signal is aborted
AI21FetchAbort ==
    /\ ai21pc = "inflight"
    /\ SignalSeen
    /\ AI21Fail(MkError(MsgAbort, Undefined, Undefined))
    /\ UNCHANGED <<env, ai21Status, ai21Fields, ai21, ai21Prompt, ai21Options, ai21Aborted,
                   ai21Request, ai21Received, ai21Data, ai21Fetches, ai21Calls, modVars>>

\* fetch rejects because no response was received
AI21FetchFail ==
    /\ ai21pc = "inflight"
    /\ AI21Fail(MkError("fetch failed", Undefined, Undefined))
    /\ UNCHANGED <<env, ai21Status, ai21Fields, ai21, ai21Prompt, ai21Options, ai21Aborted,
                   ai21Request, ai21Received, ai21Data, ai21Fetches, ai21Calls, modVars>>

\* fetch resolves with a response; the callback checks response.ok
AI21FetchRespond(response) ==
    /\ ai21pc = "inflight"
    /\ ~SignalSeen
    /\ ai21Received' = Some(response)
    /\ LET outcome == FetchCallback(response)
       IN IF outcome.threw
          THEN AI21Fail(outcome.error[1])
          ELSE /\ ai21pc' = "readingBody"
               /\ UNCHANGED <<ai21Result, ai21Error>>
    /\ UNCHANGED <<env, ai21Status, ai21Fields, ai21, ai21Prompt, ai21Options, ai21Aborted,
                   ai21Request, ai21Data, ai21Fetches, ai21Calls, modVars>>

\* response.json() resolves; the caller returns it and _call shapes it
AI21JsonResolve ==
    /\ ai21pc = "readingBody"
    /\ LET responseData == CallWithOptions(FetchCallback(ai21Received[1])).value[1]
           outcome == ShapeResponse(responseData)
       IN /\ ai21Data' = Some(responseData)
          /\ IF outcome.threw
             THEN /\ ai21pc' = "failed"
                  /\ ai21Error' = outcome.error
                  /\ ai21Result' = Undefined
             ELSE /\ ai21pc' = "done"
                  /\ ai21Result' = outcome.value
                  /\ ai21Error' = Undefined
    /\ UNCHANGED <<env, ai21Status, ai21Fields, ai21, ai21Prompt, ai21Options, ai21Aborted,
                   ai21Request, ai21Received, ai21Fetches, ai21Calls, modVars>>

\* response.json() rejects because the signal was aborted while the body
\* was being read
AI21JsonAbort ==
    /\ ai21pc = "readingBody"
    /\ SignalSeen
    /\ AI21Fail(MkError(MsgAbort, Undefined, Undefined))
    /\ UNCHANGED <<env, ai21Status, ai21Fields, ai21, ai21Prompt, ai21Options, ai21Aborted,
                   ai21Request, ai21Received, ai21Data, ai21Fetches, ai21Calls, modVars>>

(* ------------------------- moderation: actions ------------------------ *)
\* new OpenAIModerationChain(fields)
ModConstruct(fields) ==
    /\ modStatus = "unconstructed"
    /\ modFields' = Some(fields)
    /\ IF ModConstructorThrows(fields, env)
       THEN /\ modStatus' = "constructFailed"
            /\ modError' = Some(MkError(MsgNoOpenAIKey, Undefined, Undefined))
            /\ UNCHANGED mod
       ELSE /\ modStatus' = "constructed"
            /\ mod' = ModConstructor(fields, env)
            /\ UNCHANGED modError
    /\ UNCHANGED <<env, ai21Vars, modpc, modText, modReply, modOutput, modRequests, modCalls>>

\* _call(values) up to its suspension on the moderation request
ModCall(text) ==
    /\ modStatus = "constructed"
    /\ modpc \in {"idle", "done", "failed"}
    /\ modCalls < MaxCalls
    /\ modCalls' = modCalls + 1
    /\ modText' = Some(text)
    /\ modRequests' = modRequests + 1
    /\ modpc' = "inflight"
    /\ modReply' = Undefined
    /\ modOutput' = Undefined
    /\ modError' = Undefined
    /\ UNCHANGED <<env, ai21Vars, modStatus, modFields, mod>>

\* the moderation request resolves; _moderate runs on its first result
ModResolve(reply) ==
    /\ modpc = "inflight"
    /\ modReply' = Some(reply)
    /\ LET outcome == ModerateFirst(mod, modText[1], CallerCall(Returned(reply)).value[1])
       IN IF outcome.threw
          THEN /\ modpc' = "failed"
               /\ modError' = outcome.error
               /\ modOutput' = Undefined
          ELSE /\ modpc' = "done"
               /\ modOutput' = outcome.value
               /\ modError' = Undefined
    /\ UNCHANGED <<env, ai21Vars, modStatus, modFields, mod, modText, modRequests, modCalls>>

\* the moderation request is rejected; the catch clause rethrows
ModReject(rejection) ==
    /\ modpc = "inflight"
    /\ modpc' = "failed"
    /\ modError' = Some(CatchRethrow(rejection))
    /\ modOutput' = Undefined
    /\ UNCHANGED <<env, ai21Vars, modStatus, modFields, mod, modText, modReply,
                   modRequests, modCalls>>

(* ---------------------------- specification --------------------------- *)
\* construction of the two adapters from explicit fields and the environment
NextConfig ==
    \/ \E fields \in AI21Inputs : AI21Construct(fields)
    \/ \E fields \in ModInputs : ModConstruct(fields)

\* the AI21 adapter: construction and calls
NextAI21 ==
    \/ \E fields \in AI21Inputs : AI21Construct(fields)
    \/ \E prompt \in Prompts, options \in CallOptions, aborted \in BOOLEAN :
          AI21Call(prompt, options, aborted)
    \/ AI21Abort
    \/ AI21FetchAbort
    \/ AI21FetchFail
    \/ \E response \in Responses : AI21FetchRespond(response)
    \/ AI21JsonResolve
    \/ AI21JsonAbort

\* the moderation chain: construction and calls
NextModeration ==
    \/ \E fields \in ModInputs : ModConstruct(fields)
    \/ \E text \in Texts : ModCall(text)
    \/ \E reply \in Moderations : ModResolve(reply)
    \/ \E rejection \in Rejections : ModReject(rejection)

\* a program using both adapters; they share nothing but the environment,
\* which neither writes
Next == NextAI21 \/ NextModeration

Spec == Init /\ [][Next]_vars
SpecConfig == Init /\ [][NextConfig]_vars
SpecAI21 == Init /\ [][NextAI21]_vars
SpecModeration == Init /\ [][NextModeration]_vars

\* the runtime delivers an abort to the fetch that was handed the signal, and
\* the rejection reaches _call; nothing obliges the network to answer
FairSpecAI21 == SpecAI21 /\ WF_vars(AI21FetchAbort)

(* ------------------------------ properties ---------------------------- *)
NonEmptyList(o) == o # Undefined /\ Len(o[1]) > 0
EmptyList(o) == o = Undefined \/ Len(o[1]) = 0

\* C1: constructing an adapter with no explicit API key while the fallback
\* environment variable is unset fails at construction with the
\* missing-credential error, and the adapter has made no network call.
C1_MissingCredentialAtConstruction ==
    /\ (/\ ai21Fields # Undefined
        /\ ai21Fields[1].ai21ApiKey = Undefined
        /\ env.AI21_API_KEY = Undefined)
          => (ai21Status = "constructFailed" /\ ai21Fetches = 0)
    /\ (/\ modFields # Undefined
        /\ modFields[1].openAIApiKey = Undefined
        /\ env.OPENAI_API_KEY = Undefined)
          => (/\ modStatus = "constructFailed"
              /\ modError # Undefined
              /\ modError[1].message = MsgNoOpenAIKey
              /\ modRequests = 0)

\* C2: a call made while the static stop list and the call-time stop list
\* are both non-empty fails with the conflicting-parameter error and issues
\* no request.
C2_StopConflictFails ==
    (/\ ai21Options # Undefined
     /\ NonEmptyList(ai21.stop)
     /\ NonEmptyList(ai21Options[1].stop))
       => (/\ ai21pc = "failed"
           /\ ai21Error # Undefined
           /\ ai21Error[1].message = MsgStopConflict
           /\ ai21Request = Undefined)

\* C3: when a request is sent and the static stop list is unset or of length
\* zero, the stopSequences of the request body are the call-time stop list.
C3_CallTimeStopOverridesEmptyStatic ==
    (ai21Request # Undefined /\ EmptyList(ai21.stop))
       => ai21Request[1].body.stopSequences =
             Coalesce(ai21Options[1].stop, Some(<<>>))[1]

EmptyCompletions(responseData) ==
    \/ responseData.completions = Undefined
    \/ Len(responseData.completions[1]) = 0
    \/ responseData.completions[1][1].data = Undefined

\* C5: response data of a successful response whose completions are absent
\* or empty, or whose first completion has no data, fails the call with the
\* empty-result error; no string, in particular not "", is returned.
C5_EmptyResult ==
    (ai21Data # Undefined /\ EmptyCompletions(ai21Data[1]))
       => (/\ ai21pc = "failed"
           /\ ai21Result = Undefined
           /\ ai21Error # Undefined
           /\ ai21Error[1].message = MsgNoCompletions)

C5_Witness ==
    /\ ai21Data # Undefined
    /\ ai21Data[1].completions = Some(<<>>)
    /\ ai21pc = "failed"
    /\ ai21Error[1].message = MsgNoCompletions

\* C6: once the caller's signal is aborted while the request is in flight,
\* the call does not go on to a response or a result, and it eventually
\* fails.
C6_AbortInFlightFails ==
    /\ [][(ai21pc = "inflight" /\ ai21Aborted)
            => (ai21pc' \in {"inflight", "failed"} /\ ai21Result' = Undefined)]_vars
    /\ ((ai21pc = "inflight" /\ ai21Aborted)
            ~> (ai21pc = "failed" /\ ai21Result = Undefined))

C6_Witness ==
    /\ ai21pc = "failed"
    /\ ai21Aborted
    /\ ai21Received = Undefined
    /\ ai21Error[1].message = MsgAbort

\* C7: the key an adapter resolves is the explicitly supplied key whenever
\* one is supplied, whatever the environment variable holds; the
\* environment variable is the key only when no explicit key is supplied.
C7_ExplicitKeyPreferred ==
    /\ ai21Fields # Undefined =>
          /\ ai21Fields[1].ai21ApiKey # Undefined
                => ai21.ai21ApiKey = ai21Fields[1].ai21ApiKey
          /\ ai21Fields[1].ai21ApiKey = Undefined
                => ai21.ai21ApiKey = env.AI21_API_KEY
    /\ modStatus = "constructed" =>
          /\ modFields[1].openAIApiKey # Undefined
                => /\ mod.openAIApiKey = modFields[1].openAIApiKey
                   /\ mod.clientConfig.apiKey \in
                         {modFields[1].openAIApiKey, Some("c1")}
          /\ modFields[1].openAIApiKey = Undefined
                => mod.openAIApiKey = env.OPENAI_API_KEY

C7_Witness ==
    /\ ai21Fields # Undefined
    /\ ai21Fields[1].ai21ApiKey = Some("k1")
    /\ env.AI21_API_KEY = Some("e1")
    /\ ai21.ai21ApiKey = Some("k1")
    /\ modStatus = "constructed"
    /\ modFields[1].openAIApiKey = Some("k2")
    /\ env.OPENAI_API_KEY = Some("e2")

\* C8: no step taken once the AI21 instance is constructed changes any of
\* its configuration fields.
C8_ConfigNeverMutated ==
    [][ai21Status = "constructed" => ai21' = ai21]_vars

C8_Witness ==
    /\ ai21Calls = MaxCalls
    /\ ai21pc = "done"
    /\ ai21Options[1].stop = Some(<<"s2">>)
    /\ ai21.stop = Undefined

\* C9: a request goes to <baseUrl>/<model>/complete when baseUrl is
\* configured, and to the provider default otherwise (the experimental base
\* path for j1-grande-instruct, the v1 base path for any other model).
C9_BaseUrlOverride ==
    ai21Request # Undefined =>
       ai21Request[1].url =
          IF ai21.baseUrl # Undefined
          THEN <<ai21.baseUrl[1], ai21.model, "complete">>
          ELSE <<IF ai21.model = ExperimentalModel THEN ExperimentalBase ELSE StandardBase,
                 ai21.model, "complete">>

\* C10: when the first moderation result is not flagged the output is the
\* input text; when it is flagged the call throws the content-policy error
\* if throwError is set and otherwise outputs the fixed content-policy
\* message, never an input text that differs from that message.
C10_ModerationOutput ==
    (modReply # Undefined /\ Len(modReply[1].results) > 0) =>
       IF ~modReply[1].results[1].flagged
       THEN /\ modpc = "done"
            /\ modOutput = Some([output |-> modText[1]])
       ELSE IF mod.throwError
       THEN /\ modpc = "failed"
            /\ modOutput = Undefined
            /\ modError # Undefined
            /\ modError[1].message = MsgPolicy
       ELSE /\ modpc = "done"
            /\ modOutput = Some([output |-> MsgPolicy])
            /\ (modText[1] # MsgPolicy => modOutput[1].output # modText[1])

C10_Witness ==
    /\ modReply # Undefined
    /\ Len(modReply[1].results) > 0
    /\ modReply[1].results[1].flagged
    /\ ~mod.throwError
    /\ modText = Some("hello")
    /\ modOutput = Some([output |-> MsgPolicy])

====
